---- MODULE Spec2Model ----
(***************************************************************************)
(* The session store (src/src/session.rs), the embedding client and its    *)
(* OVNT frame codec (src/src/embedding_client.rs), and the start-up,       *)
(* transport dispatcher and listeners (src/src/main.rs, src/src/server) as *)
(* state machines.                                                         *)
(*                                                                         *)
(* Spec       the session store: create / next / collect_all / has_more /  *)
(*            get / remove, the eviction sweep inside create, and the wall *)
(*            clock the sessions are stamped with.                         *)
(* LiveSpec   Spec with the fairness under which reclamation is examined.  *)
(* CodecSpec  write_protocol_message / read_protocol_message over a byte   *)
(*            stream.                                                      *)
(* EmbedSpec  one call of embed_text or test_connection at a time: the     *)
(*            validation, the connect under its timer, the round trip and  *)
(*            the decoding of the response.                                *)
(* EmbedLiveSpec  EmbedSpec with the fairness of the timer and the caller. *)
(* DispatchSpec   async_main from the start-up checks on, the listeners    *)
(*            and the handlers of their connections.                       *)
(* DispatchLiveSpec  DispatchSpec with the sleep after an accept error     *)
(*            coming to its end.                                           *)
(***************************************************************************)
EXTENDS Integers, Sequences, FiniteSets, TLC

(***************************************************************************)
(* Bounds.  The numbers of the program that cannot be explored at their    *)
(* real size are scaled down; each says which number it stands for.        *)
(***************************************************************************)
\* stands for the cap of 100 sessions tested by create_session (session.rs:72)
SessionCap == 2
\* stands for the 3600 seconds of cleanup_old_sessions (session.rs:92), in clock ticks
OneHour == 1
\* the wall clock takes the values 0 .. MaxTime
MaxTime == 3
\* stands for usize::MAX, the largest value of cursor, limit and their sum
UsizeMax == 7

\* stands for 2^32, the number of values of the u32 length field of a frame
U32Modulus == 16
\* the longest payload handed to the frame writer
MaxPayloadLen == 17

\* stands for 384, the dimension validate_embedding expects (embedding_client.rs:82)
ExpectedDim == 2
\* the longest text handed to embed_text, in characters
MaxTextLen == 3

Times == 0 .. MaxTime
Ids == {"u1", "u2", "u3"}
Queries == {"q"}
ResultSets == {<< >>, <<"a", "b">>}
Limits == {0, 1, 2, UsizeMax}

VARIABLES
    sessions,   \* SessionManager.sessions: session id -> QuerySession
    clock,      \* the wall clock read by SystemTime::now()
    ret,        \* what the last call returned to its caller
    delivered   \* per stored session, the batches returned so far, concatenated

svars == <<sessions, clock, ret, delivered>>

VARIABLES
    client_id,  \* EmbeddingClient.client_id
    cpc,        \* where the exchange on the present connection stands
    issued,     \* the message identifiers generated so far
    sent,       \* the payload handed to write_protocol_message
    wr,         \* what write_protocol_message returned
    wire,       \* the bytes write_protocol_message put on the stream
    inbound,    \* the bytes the peer sent on the stream, and whether it then closed it
    rd          \* what read_protocol_message returned, and how many bytes it consumed

cvars == <<client_id, cpc, issued, sent, wr, wire, inbound, rd>>

VARIABLES
    op,         \* the operation of EmbeddingClient in progress
    text,       \* the text it was called with
    epc,        \* where the call stands
    connects,   \* the connection attempts the call has made
    written,    \* the bytes the call has written to its connection
    response,   \* the value the payload of the response frame encodes
    result      \* what the call returned

evars == <<op, text, epc, connects, written, response, result>>

VARIABLES
    config,     \* the configuration async_main loaded
    mpc,        \* where async_main stands
    exit,       \* what async_main returned
    transport,  \* per transport, where its server stands
    started,    \* the transports the dispatcher has started
    outbound,   \* the services async_main has opened a connection to
    conns       \* per connection of a listener, its transport and where its handler stands

dvars == <<config, mpc, exit, transport, started, outbound, conns>>

\* what the calls on the session store leave alone, the calls on the codec, the
\* calls of embed_text, and the steps of async_main and its servers
notSession == <<cvars, evars, dvars>>
notCodec == <<svars, evars, dvars>>
notEmbed == <<svars, cvars, dvars>>
notDispatch == <<svars, cvars, evars>>

Min(a, b) == IF a <= b THEN a ELSE b

\* results[start..end] of a Vec: positions start .. end-1, counted from 0
Slice(v, start, end) == SubSeq(v, start + 1, end)

NoRet == [op |-> "none", id |-> "none", outcome |-> "none", batch |-> << >>,
          flag |-> FALSE]

(***************************************************************************)
(* QuerySession                                                            *)
(***************************************************************************)
QuerySession_new(id, query, results, now) ==
    [session_id |-> id, query |-> query, results |-> results, cursor |-> 0,
     total_count |-> Len(results), created_at |-> now]

\* start + limit on usize: the checked build panics on overflow, the unchecked one wraps
AddUsize(a, b, checked) ==
    IF a + b > UsizeMax
    THEN IF checked THEN [panic |-> TRUE, value |-> 0]
         ELSE [panic |-> FALSE, value |-> (a + b) % (UsizeMax + 1)]
    ELSE [panic |-> FALSE, value |-> a + b]

\* next that returns the batch and leaves the cursor where it was
QuerySession_next_no_advance(s, limit, checked) ==
    LET start == s.cursor
        sum   == AddUsize(start, limit, checked)
        end   == Min(sum.value, Len(s.results))
    IN  IF sum.panic \/ start > end
        THEN [panic |-> TRUE, batch |-> << >>, session |-> s]
        ELSE [panic |-> FALSE, batch |-> Slice(s.results, start, end), session |-> s]

\* next that advances the cursor by limit instead of by the size of the batch
QuerySession_next_no_min(s, limit, checked) ==
    LET start == s.cursor
        sum   == AddUsize(start, limit, checked)
        end   == Min(sum.value, Len(s.results))
    IN  IF sum.panic \/ start > end
        THEN [panic |-> TRUE, batch |-> << >>, session |-> s]
        ELSE [panic |-> FALSE, batch |-> Slice(s.results, start, end),
              session |-> [s EXCEPT !.cursor = sum.value]]

\* the builds that differ on a + b: with and without overflow checks when it overflows
OverflowChecks(a, b) == IF a + b > UsizeMax THEN BOOLEAN ELSE {TRUE}

\* QuerySession::next: the batch, the session afterwards, and whether the call panicked
QuerySession_next(s, limit, checked) ==
    LET start == s.cursor
        sum   == AddUsize(start, limit, checked)
        end   == Min(sum.value, Len(s.results))
    IN  IF sum.panic \/ start > end
        THEN [panic |-> TRUE, batch |-> << >>, session |-> s]
        ELSE [panic |-> FALSE, batch |-> Slice(s.results, start, end),
              session |-> [s EXCEPT !.cursor = end]]

\* collect_all that returns the rest and leaves the cursor where it was
QuerySession_collect_all_no_advance(s) ==
    [batch |-> Slice(s.results, s.cursor, Len(s.results)), session |-> s]

QuerySession_collect_all(s) ==
    [batch |-> Slice(s.results, s.cursor, Len(s.results)),
     session |-> [s EXCEPT !.cursor = Len(s.results)]]

QuerySession_has_more(s) == s.cursor < Len(s.results)

(***************************************************************************)
(* SessionManager                                                          *)
(***************************************************************************)
\* the closure of retain: now.duration_since(created_at).map(|d| d < one_hour).unwrap_or(false)
Retained(s, now) ==
    IF now >= s.created_at THEN now - s.created_at < OneHour ELSE FALSE

\* a sweep that retains every session
cleanup_old_sessions_keep_all(m, now) == m

cleanup_old_sessions(m, now) ==
    LET keep == {i \in DOMAIN m : Retained(m[i], now)}
    IN  [i \in keep |-> m[i]]

Insert(m, id, s) == [i \in DOMAIN m \cup {id} |-> IF i = id THEN s ELSE m[i]]

\* the map after create_session; now2 is the clock as cleanup_old_sessions reads it
create_session(m, id, query, results, now1, now2) ==
    LET inserted == Insert(m, id, QuerySession_new(id, query, results, now1))
    IN  IF Cardinality(DOMAIN inserted) > SessionCap
        THEN cleanup_old_sessions(inserted, now2)
        ELSE inserted

\* remove_session that reports success whether or not the id was stored
remove_session_always_true(m, id) ==
    [map |-> [i \in DOMAIN m \ {id} |-> m[i]], found |-> TRUE]

\* remove_session: the map afterwards and the value returned
remove_session(m, id) ==
    [map |-> [i \in DOMAIN m \ {id} |-> m[i]], found |-> id \in DOMAIN m]

\* Uuid::new_v4(): a random 122-bit value, taken as never colliding with a stored id
NewUuid == Ids \ DOMAIN sessions

SessionInit ==
    /\ sessions = << >>
    /\ clock \in Times
    /\ ret = NoRet
    /\ delivered = << >>

\* the store before any call, for the specifications that are not about it
SessionIdle ==
    /\ sessions = << >>
    /\ clock = 0
    /\ ret = NoRet
    /\ delivered = << >>

\* create_session(query, results); the clock may have moved, either way, between the
\* time stamp of QuerySession::new and the reading of cleanup_old_sessions
CreateSession(query, results) ==
    \E id \in NewUuid :
    \E now2 \in IF Cardinality(DOMAIN sessions) + 1 > SessionCap THEN Times ELSE {clock} :
        LET after == create_session(sessions, id, query, results, clock, now2)
            swept == Cardinality(DOMAIN sessions) + 1 > SessionCap
        IN  /\ sessions' = after
            /\ clock' = IF swept THEN now2 ELSE clock
            /\ delivered' = [i \in DOMAIN after |-> IF i = id THEN << >> ELSE delivered[i]]
            /\ ret' = [NoRet EXCEPT !.op = "create", !.id = id,
                                    !.outcome = "ok", !.batch = results, !.flag = swept]
            /\ UNCHANGED notSession

\* get_session(id) followed by next(limit) on the session found
NextBatch(id, limit) ==
    IF id \notin DOMAIN sessions
    THEN /\ ret' = [NoRet EXCEPT !.op = "next", !.id = id, !.outcome = "not_found"]
         /\ UNCHANGED <<sessions, clock, delivered, notSession>>
    ELSE \E checked \in OverflowChecks(sessions[id].cursor, limit) :
            LET r == QuerySession_next(sessions[id], limit, checked)
            IN  /\ sessions' = [sessions EXCEPT ![id] = r.session]
                /\ delivered' = [delivered EXCEPT ![id] = @ \o r.batch]
                /\ ret' = [NoRet EXCEPT !.op = "next", !.id = id,
                                        !.outcome = IF r.panic THEN "panic" ELSE "ok",
                                        !.batch = r.batch]
                /\ UNCHANGED <<clock, notSession>>

\* get_session(id) followed by collect_all() on the session found
CollectAll(id) ==
    IF id \notin DOMAIN sessions
    THEN /\ ret' = [NoRet EXCEPT !.op = "collect_all", !.id = id,
                                 !.outcome = "not_found"]
         /\ UNCHANGED <<sessions, clock, delivered, notSession>>
    ELSE LET r == QuerySession_collect_all(sessions[id])
         IN  /\ sessions' = [sessions EXCEPT ![id] = r.session]
             /\ delivered' = [delivered EXCEPT ![id] = @ \o r.batch]
             /\ ret' = [NoRet EXCEPT !.op = "collect_all", !.id = id,
                                     !.outcome = "ok", !.batch = r.batch]
             /\ UNCHANGED <<clock, notSession>>

\* get_session(id) followed by has_more() on the session found
HasMore(id) ==
    /\ ret' = IF id \notin DOMAIN sessions
              THEN [NoRet EXCEPT !.op = "has_more", !.id = id,
                                 !.outcome = "not_found"]
              ELSE [NoRet EXCEPT !.op = "has_more", !.id = id,
                                 !.outcome = "ok",
                                 !.flag = QuerySession_has_more(sessions[id])]
    /\ UNCHANGED <<sessions, clock, delivered, notSession>>

\* remove_session(id): true iff a session was stored under id
RemoveSession(id) ==
    LET r == remove_session(sessions, id)
    IN  /\ sessions' = r.map
        /\ delivered' = [i \in DOMAIN r.map |-> delivered[i]]
        /\ ret' = [NoRet EXCEPT !.op = "remove", !.id = id,
                                !.outcome = "ok", !.flag = r.found]
        /\ UNCHANGED <<clock, notSession>>

\* time passes
Tick ==
    /\ clock < MaxTime
    /\ clock' = clock + 1
    /\ UNCHANGED <<sessions, ret, delivered, notSession>>

\* SystemTime is the wall clock: it is not monotonic and can be set back
ClockSetBack ==
    /\ \E t \in Times : t < clock /\ clock' = t
    /\ UNCHANGED <<sessions, ret, delivered, notSession>>

(***************************************************************************)
(* The OVNT frame codec of EmbeddingClient                                 *)
(***************************************************************************)
MAGIC_BYTES == <<79, 86, 78, 84>>
VERSION == 1
MSG_TYPE_DATA == 4
\* the bytes of a Uuid
UuidLen == 16

UuidOf(b) == [k \in 1 .. UuidLen |-> b]
ClientUuids == {UuidOf(161), UuidOf(162)}
MessageUuids == {UuidOf(177), UuidOf(178)}

\* payload.len() as u32
AsU32(n) == n % U32Modulus

\* the length written most significant byte first
U32_be_bytes(n) ==
    <<(n \div 16777216) % 256, (n \div 65536) % 256, (n \div 256) % 256, n % 256>>

\* write_u32_le
U32_le_bytes(n) ==
    <<n % 256, (n \div 256) % 256, (n \div 65536) % 256, (n \div 16777216) % 256>>

\* read_u32_le
U32_from_le(b) == b[1] + 256 * b[2] + 65536 * b[3] + 16777216 * b[4]

\* a frame that carries the message id before the sender id
FrameBytes_id_first(sender, message_id, payload) ==
    MAGIC_BYTES \o <<VERSION>> \o <<MSG_TYPE_DATA>>
        \o U32_le_bytes(AsU32(Len(payload)))
        \o message_id \o <<0>> \o sender \o payload

\* the bytes write_protocol_message writes, in the order it writes them
FrameBytes(sender, message_id, payload) ==
    MAGIC_BYTES \o <<VERSION>> \o <<MSG_TYPE_DATA>>
        \o U32_le_bytes(AsU32(Len(payload)))
        \o sender \o <<0>> \o message_id \o payload

Pattern(n) == [k \in 1 .. n |-> k]
PayloadLens == {0, 1, 2, U32Modulus - 1, U32Modulus, MaxPayloadLen}
Payloads == {Pattern(n) : n \in PayloadLens} \cup {<<0, 255>>}

\* read_exact of n bytes at position pos: the bytes, or the end of a closed stream,
\* or a read that stays suspended because the peer sends nothing more
ReadExact(st, pos, n) ==
    IF pos + n <= Len(st.bytes)
    THEN [res |-> "ok", data |-> SubSeq(st.bytes, pos + 1, pos + n), pos |-> pos + n]
    ELSE IF st.closed
         THEN [res |-> "UnexpectedEof", data |-> << >>, pos |-> Len(st.bytes)]
         ELSE [res |-> "blocked", data |-> << >>, pos |-> Len(st.bytes)]

\* a payload read that hands back whatever bytes a closed stream still held
ReadPayload_partial(st, pos, n) ==
    IF pos + n > Len(st.bytes) /\ st.closed
    THEN [res |-> "ok", data |-> SubSeq(st.bytes, pos + 1, Len(st.bytes)),
          pos |-> Len(st.bytes)]
    ELSE ReadExact(st, pos, n)

\* the buffer of the declared length, filled by read_exact
ReadPayload(st, pos, n) == ReadExact(st, pos, n)

ReadFails(kind, pos) == [outcome |-> kind, payload |-> << >>, consumed |-> pos]

\* a reader that accepts any four bytes as the magic
MagicOk_any(magic) == TRUE

MagicOk(magic) == magic = MAGIC_BYTES

\* a reader that accepts any version
VersionOk_any(version) == TRUE

VersionOk(version) == version = VERSION

\* read_protocol_message on the stream st
read_protocol_message(st) ==
    LET magic == ReadExact(st, 0, 4)
    IN  IF magic.res # "ok" THEN ReadFails(magic.res, magic.pos)
        ELSE IF ~MagicOk(magic.data) THEN ReadFails("InvalidData", magic.pos)
        ELSE
    LET version == ReadExact(st, magic.pos, 1)
    IN  IF version.res # "ok" THEN ReadFails(version.res, version.pos)
        ELSE IF ~VersionOk(version.data[1]) THEN ReadFails("InvalidData", version.pos)
        ELSE
    LET msg_type == ReadExact(st, version.pos, 1)
    IN  IF msg_type.res # "ok" THEN ReadFails(msg_type.res, msg_type.pos)
        ELSE
    LET length == ReadExact(st, msg_type.pos, 4)
    IN  IF length.res # "ok" THEN ReadFails(length.res, length.pos)
        ELSE
    LET sender_bytes == ReadExact(st, length.pos, UuidLen)
    IN  IF sender_bytes.res # "ok" THEN ReadFails(sender_bytes.res, sender_bytes.pos)
        ELSE
    LET target_tag == ReadExact(st, sender_bytes.pos, 1)
    IN  IF target_tag.res # "ok" THEN ReadFails(target_tag.res, target_tag.pos)
        ELSE
    LET target_bytes == IF target_tag.data[1] = 1
                        THEN ReadExact(st, target_tag.pos, UuidLen)
                        ELSE [res |-> "ok", data |-> << >>, pos |-> target_tag.pos]
    IN  IF target_bytes.res # "ok" THEN ReadFails(target_bytes.res, target_bytes.pos)
        ELSE
    LET message_bytes == ReadExact(st, target_bytes.pos, UuidLen)
    IN  IF message_bytes.res # "ok" THEN ReadFails(message_bytes.res, message_bytes.pos)
        ELSE
    LET payload == ReadPayload(st, message_bytes.pos, U32_from_le(length.data))
    IN  IF payload.res # "ok" THEN ReadFails(payload.res, payload.pos)
        ELSE [outcome |-> "ok", payload |-> payload.data, consumed |-> payload.pos]

(***************************************************************************)
(* What the embedding service may send back                                *)
(***************************************************************************)
PeerFrame(magic, version, tag, payload) ==
    magic \o <<version>> \o <<MSG_TYPE_DATA>> \o U32_le_bytes(Len(payload))
        \o UuidOf(200) \o <<tag>> \o (IF tag = 1 THEN UuidOf(201) ELSE << >>)
        \o UuidOf(202) \o payload

PeerFrames ==
    {PeerFrame(m, v, t, p) : m \in {MAGIC_BYTES, <<79, 86, 78, 85>>}, v \in {VERSION, 2},
                             t \in {0, 1}, p \in {<< >>, <<5>>, <<5, 6, 7>>}}

\* a frame whole, or cut short at a field boundary or inside a field
CutsOf(f) ==
    {SubSeq(f, 1, n) : n \in {0, 3, 4, 5, 6, 10, 26, 27, 43} \cup {Len(f) - 1, Len(f)}}

PeerStreams ==
    UNION {CutsOf(f) : f \in PeerFrames} \cup {f \o <<9>> : f \in PeerFrames}

NoRead == [outcome |-> "none", payload |-> << >>, consumed |-> 0]
NoStream == [bytes |-> << >>, closed |-> FALSE]

CodecInit ==
    /\ client_id \in ClientUuids
    /\ cpc = "idle"
    /\ issued = {}
    /\ sent = << >>
    /\ wr = "none"
    /\ wire = << >>
    /\ inbound = NoStream
    /\ rd = NoRead

\* the client before any exchange, for the specifications that are not about it
CodecIdle ==
    /\ client_id = UuidOf(161)
    /\ cpc = "idle"
    /\ issued = {}
    /\ sent = << >>
    /\ wr = "none"
    /\ wire = << >>
    /\ inbound = NoStream
    /\ rd = NoRead

\* write_protocol_message(stream, payload) on a new connection: all the bytes of the
\* frame reach the stream, or a write fails and only the bytes before it have
WriteMessage(payload) ==
    /\ cpc = "idle"
    /\ \E message_id \in MessageUuids \ issued :
          LET frame == FrameBytes(client_id, message_id, payload)
          IN  /\ issued' = issued \cup {message_id}
              /\ sent' = payload
              /\ \E n \in 0 .. Len(frame) :
                    /\ wire' = SubSeq(frame, 1, n)
                    /\ wr' = IF n = Len(frame) THEN "ok" ELSE "io_error"
                    /\ cpc' = IF n = Len(frame) THEN "written" ELSE "failed"
    /\ UNCHANGED <<client_id, inbound, rd, notCodec>>

\* the peer answers with bytes of its own
PeerResponds(bytes, closed) ==
    /\ cpc = "written"
    /\ inbound' = [bytes |-> bytes, closed |-> closed]
    /\ cpc' = "responded"
    /\ UNCHANGED <<client_id, issued, sent, wr, wire, rd, notCodec>>

\* the peer sends back the very bytes the writer produced
PeerEchoes ==
    /\ cpc = "written"
    /\ inbound' = [bytes |-> wire, closed |-> FALSE]
    /\ cpc' = "responded"
    /\ UNCHANGED <<client_id, issued, sent, wr, wire, rd, notCodec>>

\* read_protocol_message(stream)
ReadMessage ==
    /\ cpc = "responded"
    /\ rd' = read_protocol_message(inbound)
    /\ cpc' = "done"
    /\ UNCHANGED <<client_id, issued, sent, wr, wire, inbound, notCodec>>

\* the call returns and its connection is dropped
ConnectionDropped ==
    /\ cpc \in {"done", "failed"}
    /\ cpc' = "idle"
    /\ sent' = << >>
    /\ wr' = "none"
    /\ wire' = << >>
    /\ inbound' = NoStream
    /\ rd' = NoRead
    /\ UNCHANGED <<client_id, issued, notCodec>>

CodecNext ==
    \/ \E p \in Payloads : WriteMessage(p)
    \/ \E b \in PeerStreams, c \in BOOLEAN : PeerResponds(b, c)
    \/ PeerEchoes
    \/ ReadMessage
    \/ ConnectionDropped

(***************************************************************************)
(* EmbeddingClient::embed_text: validation, connect, round trip, decoding  *)
(***************************************************************************)
\* the least number of bytes validate_text_for_embedding lets through
MinTextLen == 3

\* the characters of a text: a letter, a space, a letter of two bytes and a white
\* space of three bytes (U+3000) in UTF-8
Chars == {"a", "space", "e_acute", "ideographic_space"}
IsWhitespace(c) == c \in {"space", "ideographic_space"}
Utf8Width(c) ==
    CASE c = "a" -> 1
      [] c = "space" -> 1
      [] c = "e_acute" -> 2
      [] c = "ideographic_space" -> 3

Texts == UNION {[1 .. n -> Chars] : n \in 0 .. MaxTextLen}

RECURSIVE Utf8Len(_)
\* str::len: the number of bytes of the text
Utf8Len(t) == IF t = << >> THEN 0 ELSE Utf8Width(Head(t)) + Utf8Len(Tail(t))

\* str::trim().is_empty()
TrimIsEmpty(t) == \A k \in 1 .. Len(t) : IsWhitespace(t[k])

\* Result<_, Box<dyn Error>>
NoErr == [type |-> "none", kind |-> "none", msg |-> << >>]
Ok(v) == [ok |-> TRUE, value |-> v, err |-> NoErr]
Err(type, kind, msg) ==
    [ok |-> FALSE, value |-> << >>, err |-> [type |-> type, kind |-> kind, msg |-> msg]]
NoResult == [ok |-> FALSE, value |-> << >>, err |-> NoErr]

\* a validation that lets every text that is not blank through
validate_text_for_embedding_blank_only(t) ==
    IF TrimIsEmpty(t)
    THEN Err("String", "none", <<"Cannot generate embedding for empty text">>)
    ELSE Ok(<< >>)

validate_text_for_embedding(t) ==
    IF TrimIsEmpty(t)
    THEN Err("String", "none", <<"Cannot generate embedding for empty text">>)
    ELSE IF Utf8Len(t) < MinTextLen
    THEN Err("String", "none", <<"Text too short for meaningful embedding">>)
    ELSE Ok(<< >>)

\* a validation that lets every vector through
validate_embedding_any(embedding) == Ok(<< >>)

validate_embedding(embedding) ==
    IF Len(embedding) # ExpectedDim
    THEN Err("String", "none", <<"Invalid embedding dimension">>)
    ELSE Ok(<< >>)

(***************************************************************************)
(* The values a response payload encodes (MessagePack), and their decoding *)
(***************************************************************************)
\* a value: its shape, and the numbers, the text or the fields it holds
NoFields == [k \in {} |-> 0]
Value(shape, nums, str, fields) ==
    [shape |-> shape, nums |-> nums, str |-> str, fields |-> fields]
NoValue == Value("none", << >>, "", NoFields)
Nums(v) == Value("array_of_numbers", v, "", NoFields)
Str(s) == Value("string", << >>, s, NoFields)
\* an array of one element, a string or an array of numbers: a struct of one field
\* in the compact encoding
ArrayOfStr(s) == Value("array_of_string", << >>, s, NoFields)
ArrayOfNums(v) == Value("array_of_array", v, "", NoFields)
Map(f) == Value("map", << >>, "", f)

Vectors == {[k \in 1 .. n |-> x] : n \in {0, ExpectedDim, ExpectedDim + 1}, x \in {10, 20}}
\* the values of the fields of a map: arrays of numbers and a string
NumsField(v) == [shape |-> "array_of_numbers", nums |-> v, str |-> ""]
StrField(s) == [shape |-> "string", nums |-> << >>, str |-> s]
FieldValues == {NumsField(v) : v \in Vectors} \cup {StrField("boom")}
Keys == {"embedding", "vector", "error"}
Maps == UNION {[ks -> FieldValues] : ks \in SUBSET Keys}

ResponseValues ==
    {Nums(v) : v \in Vectors} \cup {Map(f) : f \in Maps}
        \cup {Str("boom"), ArrayOfStr("boom")} \cup {ArrayOfNums(v) : v \in Vectors}

Decoded(v) == [ok |-> TRUE, value |-> v]
NotDecoded == [ok |-> FALSE, value |-> << >>]

HasField(x, key, shape) ==
    /\ x.shape = "map"
    /\ key \in DOMAIN x.fields
    /\ x.fields[key].shape = shape

\* the variants of the untagged enum EmbedResponse, each tried on the whole value
DirectArray(x) ==
    IF x.shape = "array_of_numbers" THEN Decoded(x.nums) ELSE NotDecoded
Wrapped(x) ==
    IF HasField(x, "embedding", "array_of_numbers")
    THEN Decoded(x.fields["embedding"].nums) ELSE NotDecoded
VectorWrapped(x) ==
    IF HasField(x, "vector", "array_of_numbers")
    THEN Decoded(x.fields["vector"].nums) ELSE NotDecoded

\* a decoder that tries the variant keyed vector before the one keyed embedding
from_slice_EmbedResponse_vector_first(x) ==
    IF DirectArray(x).ok THEN DirectArray(x)
    ELSE IF VectorWrapped(x).ok THEN VectorWrapped(x)
    ELSE Wrapped(x)

\* rmp_serde::from_slice::<EmbedResponse>: the first variant, in the order of their
\* declaration, that decodes the value; get_embedding takes the vector out of it
from_slice_EmbedResponse(x) ==
    IF DirectArray(x).ok THEN DirectArray(x)
    ELSE IF Wrapped(x).ok THEN Wrapped(x)
    ELSE VectorWrapped(x)

\* rmp_serde::from_slice::<ErrorResponse>: a struct of one field, as a map keyed by the
\* field name or, in the compact encoding, as an array of the field values
from_slice_ErrorResponse(x) ==
    IF HasField(x, "error", "string")
    THEN [ok |-> TRUE, value |-> x.fields["error"].str]
    ELSE IF x.shape = "array_of_string"
    THEN [ok |-> TRUE, value |-> x.str]
    ELSE [ok |-> FALSE, value |-> ""]

\* lines 127-138 of embed_text_with_model: from the response payload to the result
DecodeResponse(x) ==
    LET response_ == from_slice_EmbedResponse(x)
        error == from_slice_ErrorResponse(x)
    IN  IF response_.ok
        THEN IF validate_embedding(response_.value).ok
             THEN Ok(response_.value)
             ELSE Err("String", "none", <<"Embedding validation failed: ">>
                          \o validate_embedding(response_.value).err.msg)
        ELSE IF error.ok
        THEN Err("String", "none", <<"Server error: ", error.value>>)
        ELSE Err("String", "none", <<"Invalid response format">>)

(***************************************************************************)
(* One call of embed_text or test_connection, from await to await          *)
(***************************************************************************)
\* rmp_serde::to_vec(&request): an array of two, the text and nil for the model
RequestLen(t) == 3 + Utf8Len(t)

\* the bytes of the frame that carries the request for the text
RequestFrameLen(t) == Len(FrameBytes(client_id, UuidOf(177), Pattern(RequestLen(t))))

EmbedInit ==
    /\ op = "none"
    /\ text = << >>
    /\ epc = "idle"
    /\ connects = 0
    /\ written = 0
    /\ response = NoValue
    /\ result = NoResult

\* embed_text(text) up to its first await: the validation and, when the text passed,
\* the start of the connection
EmbedText(t) ==
    /\ epc = "idle"
    /\ op' = "embed_text"
    /\ text' = t
    /\ written' = 0
    /\ response' = NoValue
    /\ LET valid == validate_text_for_embedding(t)
       IN  IF valid.ok
           THEN /\ connects' = 1
                /\ epc' = "connecting"
                /\ result' = NoResult
           ELSE /\ connects' = 0
                /\ epc' = "returned"
                /\ result' = Err("io::Error", "InvalidInput", valid.err.msg)
    /\ UNCHANGED notEmbed

\* test_connection() up to its await
TestConnection ==
    /\ epc = "idle"
    /\ op' = "test_connection"
    /\ text' = << >>
    /\ written' = 0
    /\ response' = NoValue
    /\ connects' = 1
    /\ epc' = "connecting"
    /\ result' = NoResult
    /\ UNCHANGED notEmbed

\* TcpStream::connect completes before the timer: embed_text goes on to write its
\* request, test_connection returns
ConnectCompletes(outcome) ==
    /\ epc = "connecting"
    /\ IF outcome # "ok"
       THEN /\ epc' = "returned"
            /\ result' = Err("io::Error", outcome, << >>)
       ELSE IF op = "test_connection"
       THEN /\ epc' = "returned"
            /\ result' = Ok(<< >>)
       ELSE /\ epc' = "writing"
            /\ result' = result
    /\ UNCHANGED <<op, text, connects, written, response, notEmbed>>

\* the timer of tokio::time::timeout elapses before the connection is made
ConnectTimesOut ==
    /\ epc = "connecting"
    /\ epc' = "returned"
    /\ result' = Err("Elapsed", "none", <<"deadline has elapsed">>)
    /\ UNCHANGED <<op, text, connects, written, response, notEmbed>>

\* write_protocol_message returns: the frame is on the stream, or a write failed
\* after some of it
WriteCompletes(outcome) ==
    /\ epc = "writing"
    /\ IF outcome = "ok"
       THEN /\ written' = RequestFrameLen(text)
            /\ epc' = "reading"
            /\ result' = result
       ELSE /\ written' \in {0, 10}
            /\ epc' = "returned"
            /\ result' = Err("io::Error", outcome, << >>)
    /\ UNCHANGED <<op, text, connects, response, notEmbed>>

\* read_protocol_message returns, with the payload of a whole frame or with an error,
\* and the payload is decoded
ReadCompletes(outcome, x) ==
    /\ epc = "reading"
    /\ IF outcome = "ok"
       THEN /\ response' = x
            /\ result' = DecodeResponse(x)
       ELSE /\ response' = NoValue
            /\ result' = Err("io::Error", outcome, << >>)
    /\ epc' = "returned"
    /\ UNCHANGED <<op, text, connects, written, notEmbed>>

\* the caller has the result; the connection is dropped
CallReturns ==
    /\ epc = "returned"
    /\ op' = "none"
    /\ text' = << >>
    /\ epc' = "idle"
    /\ connects' = 0
    /\ written' = 0
    /\ response' = NoValue
    /\ result' = NoResult
    /\ UNCHANGED notEmbed

EmbedNext ==
    \/ \E t \in Texts : EmbedText(t)
    \/ TestConnection
    \/ \E o \in {"ok", "ConnectionRefused"} : ConnectCompletes(o)
    \/ ConnectTimesOut
    \/ \E o \in {"ok", "BrokenPipe"} : WriteCompletes(o)
    \/ \E x \in ResponseValues : ReadCompletes("ok", x)
    \/ \E o \in {"UnexpectedEof", "InvalidData"} : ReadCompletes(o, NoValue)
    \/ CallReturns

(***************************************************************************)
(* async_main: the start-up checks, the transport dispatcher, the TCP and  *)
(* HTTP listeners and their connection handlers                            *)
(***************************************************************************)
Transports == {"stdio", "tcp", "http"}
SocketTransports == {"tcp", "http"}
ConnIds == {"k1", "k2"}

\* the targets handle_connection has a branch for: #[cfg(unix)] and #[cfg(windows)]
Platforms == {"unix", "windows"}

\* the settings async_main and the servers read; tcp_embedding: embedding.mode is mcp
\* and the provider is the TCP embedding server, with its address; platform: the
\* target the server was built for
Configs ==
    [enable_tcp : BOOLEAN, enable_http : BOOLEAN, transport : {"stdio", "tcp"},
     tcp_nodelay : BOOLEAN, tcp_keepalive : BOOLEAN, tcp_embedding : BOOLEAN,
     platform : Platforms]

\* Config::default()
DefaultConfig ==
    [enable_tcp |-> FALSE, enable_http |-> FALSE, transport |-> "stdio",
     tcp_nodelay |-> TRUE, tcp_keepalive |-> TRUE, tcp_embedding |-> FALSE,
     platform |-> "unix"]

\* tcp_enabled, http_enabled and stdio_mode
EnabledTransports(cfg) ==
    {t \in Transports : \/ t = "tcp" /\ cfg.enable_tcp
                        \/ t = "http" /\ cfg.enable_http
                        \/ t = "stdio" /\ cfg.transport = "stdio"}

\* the transports the if-chain of async_main starts
Selected(cfg) ==
    IF cfg.enable_tcp /\ cfg.enable_http THEN {"tcp", "http"}
    ELSE IF cfg.enable_tcp THEN {"tcp"}
    ELSE IF cfg.enable_http THEN {"http"}
    ELSE IF cfg.transport = "stdio" THEN {"stdio"}
    ELSE {}

\* the keep-alive settings of ServerConfig: tcp_keepalive_idle, tcp_keepalive_interval
\* and tcp_keepalive_retries
KeepaliveSettings == {"idle", "interval", "retries"}

\* the options of a socket as the system hands it out: coalescing on, no keep-alive
SystemDefaults == [nodelay |-> FALSE, keepalive |-> {}]

NoConn == [transport |-> "none", state |-> "none", pending |-> FALSE,
           socket |-> SystemDefaults]

\* the process runs until async_main returns
Alive == mpc # "exited"

DispatchInit ==
    /\ config \in Configs
    /\ mpc = IF config.tcp_embedding THEN "embedding_check" ELSE "helix_check"
    /\ exit = "none"
    /\ transport = [t \in Transports |-> "off"]
    /\ started = {}
    /\ outbound = {}
    /\ conns = [c \in ConnIds |-> NoConn]

\* the process before it has started anything, for the specifications about its parts
DispatchIdle ==
    /\ config = DefaultConfig
    /\ mpc = "helix_check"
    /\ exit = "none"
    /\ transport = [t \in Transports |-> "off"]
    /\ started = {}
    /\ outbound = {}
    /\ conns = [c \in ConnIds |-> NoConn]

\* test_tcp_embedding_connection: embed_text("connection test") on a client of its own
TestTcpEmbeddingConnection(outcome) ==
    /\ mpc = "embedding_check"
    /\ outbound' = outbound \cup {"embedding"}
    /\ IF outcome = "ok"
       THEN mpc' = "helix_check" /\ exit' = exit
       ELSE mpc' = "exited" /\ exit' = "TCP embedding server not reachable"
    /\ UNCHANGED <<config, transport, started, conns, notDispatch>>

\* helix_client.test_connection()
TestHelixConnection(outcome) ==
    /\ mpc = "helix_check"
    /\ outbound' = outbound \cup {"helix"}
    /\ IF outcome = "ok"
       THEN mpc' = "dispatch" /\ exit' = exit
       ELSE mpc' = "exited" /\ exit' = "Connection failed"
    /\ UNCHANGED <<config, transport, started, conns, notDispatch>>

\* the if-chain over the enabled transports: both socket servers as spawned tasks that
\* async_main joins, or one server that async_main itself runs, or the bail-out
Dispatch ==
    /\ mpc = "dispatch"
    /\ LET sel == Selected(config)
       IN  /\ started' = sel
           /\ transport' = [t \in Transports |-> IF t \in sel THEN "starting" ELSE "off"]
           /\ mpc' = IF sel = {} THEN "exited"
                     ELSE IF sel = {"tcp", "http"} THEN "joining"
                     ELSE "serving"
           /\ exit' = IF sel = {} THEN "No transport enabled" ELSE exit
    /\ UNCHANGED <<config, outbound, conns, notDispatch>>

BindErrors == {"AddrInUse", "InvalidAddr"}

\* how a listener that returned an error ended: addr.parse()? or the address lookup
\* of TcpListener::bind failed, or the bind itself
BindFailure(outcome) == IF outcome = "InvalidAddr" THEN "addr_invalid" ELSE "bind_failed"

\* the states of a listener whose start_*_server call has returned
Returned == {"bind_failed", "addr_invalid"}

\* the states of a listener that is in its accept loop
Looping == {"listening", "backoff"}

\* start_tcp_server / start_http_server up to the accept loop: the listener is bound,
\* or the error returns, to the spawned task that logs it or through async_main
Bind(t, outcome) ==
    /\ Alive
    /\ t \in SocketTransports
    /\ transport[t] = "starting"
    /\ IF outcome = "ok"
       THEN /\ transport' = [transport EXCEPT ![t] = "listening"]
            /\ UNCHANGED <<mpc, exit>>
       ELSE /\ transport' = [transport EXCEPT ![t] = BindFailure(outcome)]
            /\ IF mpc = "joining"
               THEN UNCHANGED <<mpc, exit>>
               ELSE mpc' = "exited" /\ exit' = outcome
    /\ UNCHANGED <<config, started, outbound, conns, notDispatch>>

\* tokio::try_join! of the two task handles: both tasks have ended
JoinReturns ==
    /\ mpc = "joining"
    /\ \A t \in SocketTransports : transport[t] \in Returned
    /\ mpc' = "exited"
    /\ exit' = "ok"
    /\ UNCHANGED <<config, transport, started, outbound, conns, notDispatch>>

\* serve_server(server, stdio()).await?; Ok(()): the service is initialized and the
\* running service is dropped with the input still open, or the input ended or failed
\* during the initialization; either way async_main returns
ServeStdio(outcome) ==
    /\ mpc = "serving"
    /\ transport["stdio"] = "starting"
    /\ transport' = [transport EXCEPT !["stdio"] = IF outcome = "ok" THEN "dropped"
                                                   ELSE "ended"]
    /\ mpc' = "exited"
    /\ exit' = IF outcome = "ok" THEN "ok" ELSE "ServerInitializeError"
    /\ UNCHANGED <<config, started, outbound, conns, notDispatch>>

\* an accept loop that ends at the first accept error
AcceptLoop_breaks(event) == IF event = "error" THEN "bind_failed" ELSE "listening"

\* the loop around listener.accept(): where the listener is after a connection was
\* handed to its spawned handler, after an accept error, and after the sleep
AcceptLoop(event) == IF event = "error" THEN "backoff" ELSE "listening"

\* listener.accept() returns a connection: its handler is spawned
Accept(t, c) ==
    /\ Alive
    /\ transport[t] = "listening"
    /\ conns[c] = NoConn
    /\ conns' = [conns EXCEPT ![c] = [transport |-> t, state |-> "accepted",
                                      pending |-> FALSE, socket |-> SystemDefaults]]
    /\ transport' = [transport EXCEPT ![t] = AcceptLoop("accepted")]
    /\ UNCHANGED <<config, mpc, exit, started, outbound, notDispatch>>

\* listener.accept() returns an error: it is logged and the loop sleeps
AcceptFails(t) ==
    /\ Alive
    /\ transport[t] = "listening"
    /\ transport' = [transport EXCEPT ![t] = AcceptLoop("error")]
    /\ UNCHANGED <<config, mpc, exit, started, outbound, conns, notDispatch>>

BackoffEnds(t) ==
    /\ Alive
    /\ transport[t] = "backoff"
    /\ transport' = [transport EXCEPT ![t] = AcceptLoop("slept")]
    /\ UNCHANGED <<config, mpc, exit, started, outbound, conns, notDispatch>>

\* a handler that, ending, takes down every connection of its transport
CloseConnection_all(cs, c, how) ==
    [d \in ConnIds |-> IF cs[d].transport = cs[c].transport
                       THEN [cs[d] EXCEPT !.state = how, !.pending = FALSE]
                       ELSE cs[d]]

\* the handler task of connection c ends and its stream is dropped
CloseConnection(cs, c, how) ==
    [cs EXCEPT ![c] = [@ EXCEPT !.state = how, !.pending = FALSE]]

\* the calls of handle_connection that can return an error before serve_server:
\* set_nodelay(true)?, and into_std()?, set_tcp_keepalive(..)? and from_std(..)? of
\* the unix branch
TuneErrors(cfg) ==
    (IF cfg.tcp_nodelay THEN {"nodelay_err"} ELSE {})
        \cup (IF cfg.tcp_keepalive /\ cfg.platform = "unix" THEN {"keepalive_err"} ELSE {})

\* the options the stream has when it is passed to serve_server: TcpKeepalive::new()
\* .with_time(idle).with_interval(interval) on unix, a log line only on windows
Tuned(cfg) ==
    [nodelay |-> cfg.tcp_nodelay,
     keepalive |-> IF cfg.tcp_keepalive /\ cfg.platform = "unix"
                   THEN {"idle", "interval"} ELSE {}]

\* handle_connection up to serve_server: set_nodelay and the keep-alive settings
Tune(c, outcome) ==
    /\ Alive
    /\ conns[c].transport = "tcp"
    /\ conns[c].state = "accepted"
    /\ outcome \in {"ok"} \cup TuneErrors(config)
    /\ conns' = IF outcome = "ok"
                THEN [conns EXCEPT ![c].state = "tuned", ![c].socket = Tuned(config)]
                ELSE CloseConnection(conns, c, "closed_error")
    /\ UNCHANGED <<config, mpc, exit, transport, started, outbound, notDispatch>>

\* serve_server on the stream of a TCP connection, serve_connection on an HTTP one
Serve(c, outcome) ==
    /\ Alive
    /\ \/ conns[c].transport = "tcp" /\ conns[c].state = "tuned"
       \/ conns[c].transport = "http" /\ conns[c].state = "accepted" /\ outcome = "ok"
    /\ conns' = IF outcome = "ok"
                THEN [conns EXCEPT ![c].state = "serving"]
                ELSE CloseConnection(conns, c, "closed_error")
    /\ UNCHANGED <<config, mpc, exit, transport, started, outbound, notDispatch>>

\* a request arrives on a connection that is served
RequestArrives(c) ==
    /\ Alive
    /\ conns[c].state = "serving"
    /\ ~conns[c].pending
    /\ conns' = [conns EXCEPT ![c].pending = TRUE]
    /\ UNCHANGED <<config, mpc, exit, transport, started, outbound, notDispatch>>

\* its response is written
Respond(c) ==
    /\ Alive
    /\ conns[c].state = "serving"
    /\ conns[c].pending
    /\ conns' = [conns EXCEPT ![c].pending = FALSE]
    /\ UNCHANGED <<config, mpc, exit, transport, started, outbound, notDispatch>>

\* the peer closes the stream: waiting() / serve_connection return Ok
PeerCloses(c) ==
    /\ Alive
    /\ conns[c].state = "serving"
    /\ conns' = CloseConnection(conns, c, "closed_normal")
    /\ UNCHANGED <<config, mpc, exit, transport, started, outbound, notDispatch>>

\* an I/O error, a reset by the peer or a protocol error on the connection
ConnectionFails(c) ==
    /\ Alive
    /\ conns[c].state = "serving"
    /\ conns' = CloseConnection(conns, c, "closed_error")
    /\ UNCHANGED <<config, mpc, exit, transport, started, outbound, notDispatch>>

\* the handler task is gone
HandlerEnds(c) ==
    /\ Alive
    /\ conns[c].state \in {"closed_normal", "closed_error"}
    /\ conns' = [conns EXCEPT ![c] = NoConn]
    /\ UNCHANGED <<config, mpc, exit, transport, started, outbound, notDispatch>>

DispatchNext ==
    \/ \E o \in {"ok", "err"} : TestTcpEmbeddingConnection(o)
    \/ \E o \in {"ok", "err"} : TestHelixConnection(o)
    \/ Dispatch
    \/ \E t \in SocketTransports, o \in {"ok"} \cup BindErrors : Bind(t, o)
    \/ JoinReturns
    \/ \E o \in {"ok", "err"} : ServeStdio(o)
    \/ \E t \in SocketTransports, c \in ConnIds : Accept(t, c)
    \/ \E t \in SocketTransports : AcceptFails(t)
    \/ \E t \in SocketTransports : BackoffEnds(t)
    \/ \E c \in ConnIds, o \in {"ok", "nodelay_err", "keepalive_err"} : Tune(c, o)
    \/ \E c \in ConnIds, o \in {"ok", "err"} : Serve(c, o)
    \/ \E c \in ConnIds : RequestArrives(c)
    \/ \E c \in ConnIds : Respond(c)
    \/ \E c \in ConnIds : PeerCloses(c)
    \/ \E c \in ConnIds : ConnectionFails(c)
    \/ \E c \in ConnIds : HandlerEnds(c)

vars == <<svars, cvars, evars, dvars>>

Init == SessionInit /\ CodecIdle /\ EmbedInit /\ DispatchIdle

Next ==
    \/ \E q \in Queries, r \in ResultSets : CreateSession(q, r)
    \/ \E i \in Ids, l \in Limits : NextBatch(i, l)
    \/ \E i \in Ids : CollectAll(i)
    \/ \E i \in Ids : HasMore(i)
    \/ \E i \in Ids : RemoveSession(i)
    \/ Tick
    \/ ClockSetBack

Spec == Init /\ [][Next]_vars

\* The calls that change which sessions are stored, and the clock: next, collect_all
\* and has_more touch neither the membership of the store nor a time stamp.
LiveNext ==
    \/ \E q \in Queries, r \in ResultSets : CreateSession(q, r)
    \/ \E i \in Ids : RemoveSession(i)
    \/ Tick
    \/ ClockSetBack

\* the executions in which sessions keep being created
LiveSpec ==
    /\ Init
    /\ [][LiveNext]_vars
    /\ WF_vars(\E q \in Queries, r \in ResultSets : CreateSession(q, r))

CodecStart == CodecInit /\ SessionIdle /\ EmbedInit /\ DispatchIdle

CodecSpec == CodecStart /\ [][CodecNext]_vars

EmbedStart == EmbedInit /\ SessionIdle /\ CodecIdle /\ DispatchIdle

EmbedSpec == EmbedStart /\ [][EmbedNext]_vars

\* the executions in which the timer of a pending connect does elapse and the caller
\* takes every result returned to it
EmbedLiveSpec ==
    /\ EmbedStart
    /\ [][EmbedNext]_vars
    /\ WF_vars(ConnectTimesOut)
    /\ WF_vars(CallReturns)

DispatchStart == DispatchInit /\ SessionIdle /\ CodecIdle /\ EmbedInit

DispatchSpec == DispatchStart /\ [][DispatchNext]_vars

\* the executions in which the sleep after an accept error does end
DispatchLiveSpec ==
    /\ DispatchStart
    /\ [][DispatchNext]_vars
    /\ \A t \in SocketTransports : WF_vars(BackoffEnds(t))

(***************************************************************************)
(* Session store: properties                                               *)
(***************************************************************************)
InStore(i) == i \in DOMAIN sessions

IsPrefix(a, b) == Len(a) <= Len(b) /\ a = SubSeq(b, 1, Len(a))

\* C1: whatever next and collect_all calls were made on a stored session, the
\* concatenation of the batches they returned is a prefix of its results (every item
\* at most once, in the original order), it is the whole result sequence once
\* has_more is false, and has_more is false exactly when cursor = len(results).
C1_DrainedOnceInOrder ==
    \A i \in DOMAIN sessions :
        LET s == sessions[i]
        IN  /\ IsPrefix(delivered[i], s.results)
            /\ (~QuerySession_has_more(s) => delivered[i] = s.results)
            /\ (~QuerySession_has_more(s) <=> s.cursor = Len(s.results))

\* a session drained by two calls, the second one a next that returned the last item
C1_Witness ==
    /\ ret.op = "next" /\ ret.outcome = "ok" /\ Len(ret.batch) = 1
    /\ InStore(ret.id)
    /\ delivered[ret.id] = <<"a", "b">>
    /\ ~QuerySession_has_more(sessions[ret.id])

\* C2: every stored session has 0 <= cursor <= len(results).
C2_CursorInRange ==
    \A i \in DOMAIN sessions :
        /\ 0 <= sessions[i].cursor
        /\ sessions[i].cursor <= Len(sessions[i].results)

\* a next that returned the last item, on a store that has been swept
C2_Witness ==
    /\ ret.op = "next" /\ ret.outcome = "ok" /\ Len(ret.batch) = 1
    /\ InStore(ret.id)
    /\ sessions[ret.id].cursor = Len(sessions[ret.id].results)
    /\ Cardinality(DOMAIN sessions) = SessionCap + 1

\* C3: next(limit) on a session with cursor c and n results returns exactly the items
\* at positions c .. min(c+limit, n)-1, in order, and sets the cursor to min(c+limit, n);
\* on an exhausted session it returns the empty batch and leaves the cursor at n.
C3_NextReturnsWindow ==
    [][\A i \in DOMAIN sessions, l \in Limits :
          NextBatch(i, l) =>
              LET c == sessions[i].cursor
                  n == Len(sessions[i].results)
                  e == Min(c + l, n)
              IN  /\ ret'.outcome = "ok"
                  /\ ret'.batch = Slice(sessions[i].results, c, e)
                  /\ sessions'[i].cursor = e]_vars

\* C4: create returns an identifier that was not in the store, and when it returns the
\* store holds under it a session with cursor 0 and the full result sequence, also when
\* the insertion triggered the sweep.
C4_CreateStoresSession ==
    [][\A q \in Queries, r \in ResultSets :
          CreateSession(q, r) =>
              /\ ret'.id \notin DOMAIN sessions
              /\ ret'.id \in DOMAIN sessions'
              /\ sessions'[ret'.id].cursor = 0
              /\ sessions'[ret'.id].results = r]_vars

\* age of a stored session on the present reading of the clock (negative: stamped
\* with a time the clock has since been set back from)
Age(i) == clock - sessions[i].created_at
OlderThanOneHour(i) == Age(i) > OneHour

\* C5: a create that leaves more than SessionCap sessions sweeps in that same call and
\* the sweep deletes every session older than one hour; inserting session SessionCap+1
\* while all the sessions before it are older than one hour leaves only the new one.
C5_SweepDeletesOld ==
    [][\A q \in Queries, r \in ResultSets :
          (CreateSession(q, r) /\ Cardinality(DOMAIN sessions) + 1 > SessionCap) =>
              /\ \A i \in DOMAIN sessions' :
                     ~(clock' - sessions'[i].created_at > OneHour)
              /\ ( (\A i \in DOMAIN sessions :
                        /\ clock - sessions[i].created_at > OneHour
                        /\ clock' - sessions[i].created_at > OneHour)
                    => DOMAIN sessions' = {ret'.id} )]_vars

\* C6 as stated: when sessions keep being created, every session that becomes older
\* than one hour is eventually removed from the store (or, the clock having been set
\* back, is no longer older than one hour).
C6_StaleEventuallyRemoved ==
    \A i \in Ids :
        ([]<><<\E q \in Queries, r \in ResultSets : CreateSession(q, r)>>_vars) =>
            ((InStore(i) /\ OlderThanOneHour(i)) ~> (~InStore(i) \/ ~OlderThanOneHour(i)))

SweepJustRan == ret.op = "create" /\ ret.flag

\* a create that leaves more than SessionCap sessions in the store, and so sweeps
SweepingCreate ==
    /\ Cardinality(DOMAIN sessions) + 1 > SessionCap
    /\ \E q \in Queries, r \in ResultSets : CreateSession(q, r)

\* C6 amended: when creates that leave more than SessionCap sessions in the store keep
\* happening, no session stays in the store older than one hour for ever.
C6_StaleRemovedWhileSweeping ==
    \A i \in Ids :
        ([]<><<SweepingCreate>>_vars) => []<>(~(InStore(i) /\ OlderThanOneHour(i)))

\* a sweep has just removed a session older than one hour and kept a younger one
C6_Witness ==
    /\ SweepJustRan
    /\ Cardinality(DOMAIN sessions) = 2
    /\ \E i \in DOMAIN sessions : i # ret.id /\ Age(i) = 0

\* C7: next, collect_all, has_more and remove on an identifier that is not in the store
\* report not-found (remove: false) and leave the store as it was; after a remove the
\* identifier is not in the store, so that a second remove is such a call.
C7_UnknownIdNotFound ==
    [][/\ \A i \in Ids \ DOMAIN sessions :
             ((\E l \in Limits : NextBatch(i, l)) \/ CollectAll(i) \/ HasMore(i)
                  \/ RemoveSession(i)) =>
                 /\ sessions' = sessions
                 /\ ret'.id = i
                 /\ \/ ret'.outcome = "not_found"
                    \/ ret'.op = "remove" /\ ret'.outcome = "ok" /\ ret'.flag = FALSE
       /\ \A i \in Ids : RemoveSession(i) => i \notin DOMAIN sessions']_vars

\* a remove of an identifier that is not stored, while other sessions are
C7_Witness ==
    /\ ret.op = "remove" /\ ret.flag = FALSE
    /\ ret.id \notin DOMAIN sessions
    /\ DOMAIN sessions # {}

\* C8: the calls of all callers take effect one at a time: per stored session the cursor
\* is the number of items handed out so far, no item was handed out twice, and has_more
\* answers from the cursor as the last completed call left it.
C8_CallsSerialized ==
    /\ \A i \in DOMAIN sessions :
           /\ sessions[i].cursor = Len(delivered[i])
           /\ \A j, k \in 1 .. Len(delivered[i]) : delivered[i][j] = delivered[i][k] => j = k
    /\ (ret.op = "has_more" /\ ret.outcome = "ok") =>
           ret.flag = (Len(delivered[ret.id]) < Len(sessions[ret.id].results))

\* two sessions being read in turn: one partly delivered, the other just drained
C8_Witness ==
    /\ ret.op = "collect_all" /\ ret.outcome = "ok" /\ Len(ret.batch) = 1
    /\ \E i \in DOMAIN sessions : i # ret.id /\ Len(delivered[i]) = 1

(***************************************************************************)
(* Frame codec: properties                                                 *)
(***************************************************************************)
\* the reader has returned on a stream that carries the bytes the writer produced
ReadOwnFrame == cpc = "done" /\ wr = "ok" /\ inbound.bytes = wire

\* C9 as stated: for every payload, the reader fed the bytes of the writer returns
\* exactly that payload.
C9_RoundTrip ==
    ReadOwnFrame => (rd.outcome = "ok" /\ rd.payload = sent)

\* C9 amended: for every payload whose length fits the u32 length field, the reader
\* fed the bytes of the writer returns exactly that payload.
C9_RoundTripWithinU32 ==
    (ReadOwnFrame /\ Len(sent) < U32Modulus) => (rd.outcome = "ok" /\ rd.payload = sent)

\* the longest payload that fits the length field has made the round trip
C9_Witness ==
    /\ ReadOwnFrame
    /\ Len(sent) = U32Modulus - 1
    /\ rd.outcome = "ok"
    /\ rd.consumed = Len(wire)

\* C10: when the first four bytes are not the magic, or the magic is followed by a
\* version other than the supported one, the reader returns InvalidData having read
\* those four (five) bytes and nothing after them, and returns no payload.
C10_RejectsAtOnce ==
    cpc = "done" =>
        LET b == inbound.bytes
        IN  /\ (Len(b) >= 4 /\ SubSeq(b, 1, 4) # MAGIC_BYTES) =>
                   rd = [outcome |-> "InvalidData", payload |-> << >>, consumed |-> 4]
            /\ (Len(b) >= 5 /\ SubSeq(b, 1, 4) = MAGIC_BYTES /\ b[5] # VERSION) =>
                   rd = [outcome |-> "InvalidData", payload |-> << >>, consumed |-> 5]

\* a frame with the right magic, an unsupported version and a whole payload behind it
C10_Witness ==
    /\ cpc = "done"
    /\ Len(inbound.bytes) > 43
    /\ SubSeq(inbound.bytes, 1, 4) = MAGIC_BYTES
    /\ inbound.bytes[5] # VERSION
    /\ rd.outcome = "InvalidData"

\* the length field of a frame header, and the length of the header it belongs to
DeclaredLength(b) == U32_from_le(SubSeq(b, 7, 10))
HeaderLength(b) == IF b[27] = 1 THEN 43 + UuidLen ELSE 43

\* the stream ends before the frame its header announces does
FrameIncomplete(b) ==
    \/ Len(b) < 27
    \/ Len(b) < HeaderLength(b) + DeclaredLength(b)

\* C11: the reader returns a payload only when it has read exactly the number of
\* payload bytes the header declares, and they are the bytes that follow the header;
\* when the peer closed the stream before the frame was complete, in the header or in
\* the payload, the read ends with an error and returns no payload.
C11_WholeFrameOrError ==
    cpc = "done" =>
        LET b == inbound.bytes
        IN  /\ rd.outcome = "ok" =>
                   /\ ~FrameIncomplete(b)
                   /\ Len(rd.payload) = DeclaredLength(b)
                   /\ rd.payload = SubSeq(b, HeaderLength(b) + 1,
                                          HeaderLength(b) + DeclaredLength(b))
                   /\ rd.consumed = HeaderLength(b) + DeclaredLength(b)
            /\ rd.outcome # "ok" => rd.payload = << >>
            /\ (inbound.closed /\ FrameIncomplete(b)) =>
                   rd.outcome \in {"UnexpectedEof", "InvalidData"}

\* the peer closed the stream one byte before the end of a three-byte payload
C11_Witness ==
    /\ cpc = "done"
    /\ inbound.closed
    /\ Len(inbound.bytes) >= 43
    /\ DeclaredLength(inbound.bytes) = 3
    /\ Len(inbound.bytes) = HeaderLength(inbound.bytes) + 2
    /\ rd.outcome = "UnexpectedEof"
    /\ rd.payload = << >>

(***************************************************************************)
(* embed_text: properties                                                  *)
(***************************************************************************)
\* the three shapes of an embedding response
BareArray(x) == x.shape = "array_of_numbers"
KeyedArray(x, key) == HasField(x, key, "array_of_numbers")
\* an error object carrying a text message, as a map or in the compact encoding
ErrorObject(x) == HasField(x, "error", "string") \/ x.shape = "array_of_string"
ErrorText(x) == IF x.shape = "map" THEN x.fields["error"].str ELSE x.str

Answered == op = "embed_text" /\ epc = "returned" /\ response # NoValue

DimensionError ==
    Err("String", "none", <<"Embedding validation failed: ", "Invalid embedding dimension">>)

\* what embed_text returns for the vector v taken out of a response
Yields(v) == result = IF Len(v) = ExpectedDim THEN Ok(v) ELSE DimensionError

\* C12: a response is decoded as a bare array of numbers, else as a map keyed
\* embedding, else as a map keyed vector, the first that fits being used, and the
\* three shapes carrying the same numbers give the same vector; only when none fits
\* is it taken as an error object, whose message is returned as a server error, and
\* failing that an invalid-response error is returned.
C12_DecodeOrder ==
    /\ Answered =>
           LET x == response
           IN  /\ BareArray(x) => Yields(x.nums)
               /\ KeyedArray(x, "embedding") => Yields(x.fields["embedding"].nums)
               /\ (~KeyedArray(x, "embedding") /\ KeyedArray(x, "vector")) =>
                      Yields(x.fields["vector"].nums)
               /\ (~BareArray(x) /\ ~KeyedArray(x, "embedding")
                      /\ ~KeyedArray(x, "vector")) =>
                      result = IF ErrorObject(x)
                               THEN Err("String", "none", <<"Server error: ", ErrorText(x)>>)
                               ELSE Err("String", "none", <<"Invalid response format">>)
    /\ \A v \in Vectors :
           /\ DecodeResponse(Map([k \in {"embedding"} |-> NumsField(v)]))
                  = DecodeResponse(Nums(v))
           /\ DecodeResponse(Map([k \in {"vector"} |-> NumsField(v)]))
                  = DecodeResponse(Nums(v))

\* a map holding one vector under embedding and another under vector was answered
\* with the one under embedding
C12_Witness ==
    /\ Answered
    /\ KeyedArray(response, "embedding") /\ KeyedArray(response, "vector")
    /\ response.fields["embedding"].nums # response.fields["vector"].nums
    /\ Len(response.fields["embedding"].nums) = ExpectedDim
    /\ Len(response.fields["vector"].nums) = ExpectedDim
    /\ result = Ok(response.fields["embedding"].nums)

\* the texts validation is to reject: empty, white space only, or under MinTextLen
\* bytes of UTF-8 (the length str::len measures)
Rejectable(t) ==
    \/ t = << >>
    \/ \A k \in 1 .. Len(t) : IsWhitespace(t[k])
    \/ Utf8Len(t) < MinTextLen

\* C13: embed_text on a text that is empty, white space only or shorter than the
\* minimum length has returned a validation error, having made no connection attempt
\* and written no byte; nothing of the network happens in the call.
C13_RejectedLocally ==
    (op = "embed_text" /\ Rejectable(text)) =>
        /\ epc = "returned"
        /\ ~result.ok
        /\ result.err.type = "io::Error" /\ result.err.kind = "InvalidInput"
        /\ connects = 0
        /\ written = 0
        /\ response = NoValue

\* a text of three spaces: long enough, white space only, rejected
C13_Witness ==
    /\ op = "embed_text"
    /\ text = <<"space", "space", "space">>
    /\ epc = "returned"
    /\ result.err.kind = "InvalidInput"
    /\ connects = 0

\* the response has one of the three shapes of an embedding response
WellFormed(x) == BareArray(x) \/ KeyedArray(x, "embedding") \/ KeyedArray(x, "vector")
VectorOf(x) ==
    IF BareArray(x) THEN x.nums
    ELSE IF KeyedArray(x, "embedding") THEN x.fields["embedding"].nums
    ELSE x.fields["vector"].nums

\* C14: embed_text never returns success with a vector whose length is not
\* ExpectedDim; a well-formed response of another length, and no other failure, gives
\* the dimension error, which differs from the transport, protocol, server and
\* invalid-response errors; a bare array of ExpectedDim numbers gives success with it.
C14_DimensionChecked ==
    (op = "embed_text" /\ epc = "returned") =>
        /\ result.ok => Len(result.value) = ExpectedDim
        /\ (result = DimensionError) <=>
               (response # NoValue /\ WellFormed(response)
                    /\ Len(VectorOf(response)) # ExpectedDim)
        /\ result.err.msg # << >> /\ result.err.msg[1] = "Embedding validation failed: " =>
               result = DimensionError
        /\ (BareArray(response) /\ Len(response.nums) = ExpectedDim) =>
               result = Ok(response.nums)

\* a map keyed vector holding one number too many was answered with the dimension error
C14_Witness ==
    /\ Answered
    /\ ~BareArray(response) /\ ~KeyedArray(response, "embedding")
    /\ KeyedArray(response, "vector")
    /\ Len(response.fields["vector"].nums) = ExpectedDim + 1
    /\ result = DimensionError

\* C15 as stated: every call that has begun its network operations ends, whatever the
\* embedding service does or fails to do.
C15_CallEnds ==
    (epc \in {"connecting", "writing", "reading"}) ~> (epc = "returned")

\* C16 as stated: when the liveness check of the client has succeeded, it has written
\* a request and read a response, as an embedding request does.
C16_CheckDoesRoundTrip ==
    (op = "test_connection" /\ epc = "returned" /\ result.ok) =>
        (written > 0 /\ response # NoValue)

(***************************************************************************)
(* Dispatcher and listeners: properties                                    *)
(***************************************************************************)
\* C17 as stated: for every combination of the transport settings the dispatcher
\* starts exactly the enabled transports, all of them together.
C17_StartsEnabledSubset ==
    [][Dispatch =>
          /\ started' = EnabledTransports(config)
          /\ \A t \in EnabledTransports(config) : transport'[t] = "starting"]_vars

\* C18 as stated: with no transport enabled the process ends with the configuration
\* error and has touched no socket: no connection opened, no listener bound, no
\* transport started or serving.
C18_NoTransportFailsFast ==
    EnabledTransports(config) = {} =>
        /\ outbound = {}
        /\ started = {}
        /\ \A t \in Transports : transport[t] = "off"
        /\ \A c \in ConnIds : conns[c] = NoConn
        /\ mpc = "exited" => exit = "No transport enabled"

\* C19 as stated: when several transports are enabled and the listener of one cannot
\* bind, the process goes on and every other enabled transport, unless its own
\* listener failed to bind, is started and stays up.
C19_BindFailureIsolated ==
    \A t \in SocketTransports :
        (transport[t] = "bind_failed" /\ Cardinality(EnabledTransports(config)) > 1) =>
            \A u \in EnabledTransports(config) \ {t} :
                \/ transport[u] \in Returned
                \/ Alive /\ transport[u] \in {"starting"} \cup Looping

\* a tuning error, a failed initialization or an I/O failure on connection c
FailureOf(c) ==
    \/ \E e \in TuneErrors(config) : Tune(c, e)
    \/ Serve(c, "err")
    \/ ConnectionFails(c)

\* C20: a failure on one accepted connection closes that connection and nothing else:
\* the listeners and the process stay as they were, every other connection keeps its
\* state, and a connection that is served and has a request pending can be answered.
C20_ConnectionFailureIsolated ==
    /\ [][\A c \in ConnIds :
             FailureOf(c) =>
                 /\ conns'[c].state = "closed_error"
                 /\ \A d \in ConnIds \ {c} : conns'[d] = conns[d]
                 /\ transport' = transport
                 /\ mpc' = mpc /\ exit' = exit]_vars
    /\ [](\A d \in ConnIds :
             (conns[d].state = "serving" /\ conns[d].pending) => ENABLED Respond(d))
    /\ [](\A t \in SocketTransports :
             (transport[t] = "listening" /\ \E c \in ConnIds : conns[c] = NoConn) =>
                 ENABLED (\E c \in ConnIds : Accept(t, c)))

\* one connection of the TCP listener has failed while another has a request pending
C20_Witness ==
    /\ transport["tcp"] = "listening"
    /\ conns["k1"].transport = "tcp" /\ conns["k1"].state = "closed_error"
    /\ conns["k2"].transport = "tcp" /\ conns["k2"].state = "serving"
    /\ conns["k2"].pending


\* C21 as stated: in stdio mode the process has ended only when the input of the one
\* connection has ended or failed; before that the dispatcher has not returned and
\* the connection is not dropped.
C21_StdioServesUntilInputEnds ==
    ("stdio" \in started /\ ~Alive) => transport["stdio"] = "ended"

\* C22 as stated: when the address of a started socket transport is not valid, the
\* process has stopped with an error and serves on no transport, whatever else is
\* enabled.
C22_InvalidAddressIsFatal ==
    \A t \in SocketTransports :
        transport[t] = "addr_invalid" => (~Alive /\ exit \notin {"none", "ok"})

\* C23 as stated: a TCP connection goes from accepted to tuned to serving to closed,
\* one step at a time (tuned counting as serving once the stream is with the serving
\* routine), it is closed only from serving, normally when the peer closed and with an
\* error when the connection failed, and it never goes back.
C23_ConnectionLifecycle ==
    [][\A c \in ConnIds :
          LET a == conns[c].state
              b == conns'[c].state
          IN  ((conns[c].transport = "tcp" \/ conns'[c].transport = "tcp") /\ a # b) =>
                  \/ a = "none" /\ b = "accepted"
                  \/ a = "accepted" /\ b = "tuned"
                  \/ a = "tuned" /\ b = "serving"
                  \/ a = "tuned" /\ b = "closed_error" /\ Serve(c, "err")
                  \/ a = "serving" /\ b = "closed_normal" /\ PeerCloses(c)
                  \/ a = "serving" /\ b = "closed_error" /\ ConnectionFails(c)
                  \/ a \in {"closed_normal", "closed_error"} /\ b = "none"]_vars

\* C24: a listener that is bound stays in its accept loop and the process stays up;
\* handing a connection to its handler leaves the listener accepting, with the handler
\* not yet run; after an accept error the listener accepts again.
C24_AcceptLoopsNeverEnd ==
    /\ [][\A t \in SocketTransports :
             transport[t] \in Looping => (transport'[t] \in Looping /\ mpc' # "exited")]_vars
    /\ [][\A t \in SocketTransports, c \in ConnIds :
             Accept(t, c) => (transport'[t] = "listening" /\ conns'[c].state = "accepted")]_vars
    /\ [][\A t \in SocketTransports : AcceptFails(t) => transport'[t] = "backoff"]_vars
    /\ \A t \in SocketTransports : (transport[t] = "backoff") ~> (transport[t] = "listening")

\* the TCP listener sleeps after an accept error while one of its connections is
\* served and another was just handed to its handler
C24_Witness ==
    /\ transport["tcp"] = "backoff"
    /\ conns["k1"].transport = "tcp" /\ conns["k1"].state = "serving"
    /\ conns["k2"].transport = "tcp" /\ conns["k2"].state = "accepted"

\* C25 as stated: a keep-alive setting that cannot be applied does not close the
\* connection: the connection goes on to be served.
C25_KeepaliveNeverFatal ==
    [][\A c \in ConnIds : Tune(c, "keepalive_err") => conns'[c].state = "tuned"]_vars

\* the options the configuration asks for: coalescing off exactly with tcp_nodelay,
\* keep-alive with idle time, probe interval and retry count exactly with tcp_keepalive
Configured(cfg) ==
    [nodelay |-> cfg.tcp_nodelay,
     keepalive |-> IF cfg.tcp_keepalive THEN KeepaliveSettings ELSE {}]

\* C26 as stated: for each combination of the two toggles the socket of a TCP
\* connection handed to the serving routine has the options the configuration asks for.
C26_TuningsIndependent ==
    \A c \in ConnIds :
        (conns[c].transport = "tcp" /\ conns[c].state \in {"tuned", "serving"}) =>
            conns[c].socket = Configured(config)

\* the frame on the wire, field by field, but for its length field: magic, version,
\* type, then after the four bytes of the length the sender id of the client, the
\* target flag 0 with no target id after it, a message id, and the payload to the end
FrameFields ==
    /\ Len(wire) = 43 + Len(sent)
    /\ SubSeq(wire, 1, 4) = MAGIC_BYTES
    /\ wire[5] = VERSION
    /\ wire[6] = MSG_TYPE_DATA
    /\ SubSeq(wire, 11, 26) = client_id
    /\ wire[27] = 0
    /\ SubSeq(wire, 28, 43) \in issued
    /\ SubSeq(wire, 44, Len(wire)) = sent

\* the length the frame on the wire declares
WireLength == U32_from_le(SubSeq(wire, 7, 10))

\* the client keeps its id, and a frame written whole carries a message id that no
\* frame before it carried
IdsStable ==
    /\ client_id' = client_id
    /\ \A p \in Payloads :
           (WriteMessage(p) /\ wr' = "ok") => SubSeq(wire', 28, 43) \notin issued

\* C27 as stated: every frame a client has written whole has the fields in the order
\* magic, version, type, length, sender, flag, message id, payload, with the sender id
\* of the client, flag 0, a message id no other call used, and a declared length
\* equal to the number of payload bytes.
C27_FrameFieldsFixed ==
    /\ [](wr = "ok" => (FrameFields /\ WireLength = Len(sent)))
    /\ [][IdsStable]_vars

\* C27 amended: the same, the declared length being equal to the number of payload
\* bytes for every payload of fewer than 2^32 bytes.
C27_FrameFieldsFixedWithinU32 ==
    /\ [](wr = "ok" => (FrameFields /\ (Len(sent) < U32Modulus => WireLength = Len(sent))))
    /\ [][IdsStable]_vars

\* the second frame of a client, with the longest payload the length field can declare
C27_Witness ==
    /\ wr = "ok"
    /\ Cardinality(issued) = 2
    /\ Len(sent) = U32Modulus - 1
    /\ WireLength = U32Modulus - 1

\* C28 as stated: a create that leaves at most SessionCap sessions removes none; a
\* create that sweeps removes no session younger than one hour, the new one included;
\* the sessions that stay keep their cursor and their results.
C28_EvictsOnlyStale ==
    [][\A q \in Queries, r \in ResultSets :
          CreateSession(q, r) =>
              LET new     == ret'.id
                  removed == (DOMAIN sessions \cup {new}) \ DOMAIN sessions'
                  stamp(i) == IF i = new THEN clock ELSE sessions[i].created_at
              IN  /\ Cardinality(DOMAIN sessions) + 1 <= SessionCap => removed = {}
                  /\ \A i \in removed : ~(clock' - stamp(i) < OneHour)
                  /\ \A i \in DOMAIN sessions \cap DOMAIN sessions' :
                         sessions'[i] = sessions[i]]_vars

\* C29 as stated: next(limit) on a stored session returns for every limit and every
\* cursor: nothing and the cursor unmoved for limit 0, and the remaining items with
\* the cursor at the total when cursor + limit exceeds the largest usize.
C29_NextAlwaysReturns ==
    [][\A i \in DOMAIN sessions, l \in Limits :
          NextBatch(i, l) =>
              LET c == sessions[i].cursor
                  n == Len(sessions[i].results)
              IN  /\ ret'.outcome = "ok"
                  /\ l = 0 => (ret'.batch = << >> /\ sessions'[i].cursor = c)
                  /\ c + l > UsizeMax =>
                         (ret'.batch = Slice(sessions[i].results, c, n)
                              /\ sessions'[i].cursor = n)]_vars

\* C30 as stated: when async_main has returned Ok, some transport was able to serve:
\* a listener was bound or the stdio service was initialized.
C30_NoSuccessWithoutServing ==
    (mpc = "exited" /\ exit = "ok") =>
        \E t \in Transports : transport[t] \in Looping \cup {"dropped"}

====
